---- MODULE Spec2Model ----
(***************************************************************************)
(* Solarix datasheet generator: the panel-layout engine of                 *)
(* panel_drawer.py, the curve synthesis of graph_builder.py and the batch  *)
(* loop of app.py.                                                         *)
(*                                                                         *)
(* Text is a sequence of one-character strings.  Lengths are kept in       *)
(* half-millimetres wherever the code mixes 1.5 mm gaps with integers, so  *)
(* that every length is an integer; the usage score is computed in the     *)
(* binary64 arithmetic the code uses.                                      *)
(***************************************************************************)
EXTENDS Integers, Sequences, FiniteSets

(***************************************************************************)
(* Python float: IEEE-754 binary64, round to nearest, ties to even.        *)
(* A value in [0, 4) is a sequence of GRID_BITS bits, most significant     *)
(* first: bit 1 weighs 2, bit 2 weighs 1, bit i weighs 2^(2-i).            *)
(***************************************************************************)
MANTISSA_BITS == 53

\* room for every quotient a/b >= 2^-12 with its 53 significant bits and one guard bit
GRID_BITS == 68

RECURSIVE Pow2Mod(_, _)
\* 2^k mod b
Pow2Mod(k, b) ==
    IF k = 0 THEN 1 % b
    ELSE LET half == Pow2Mod(k \div 2, b)
         IN (half * half * (IF k % 2 = 1 THEN 2 ELSE 1)) % b

\* the bits of the exact quotient a/b, 0 <= a < 2b, down to weight 2^(2-n)
QuotientBits(a, b, n) ==
    [i \in 1..n |->
        IF i = 1 THEN 0
        ELSE IF i = 2 THEN a \div b
        ELSE (2 * ((a * Pow2Mod(i - 3, b)) % b)) \div b]

\* whether a/b has non-zero bits below weight 2^(2-n)
QuotientTail(a, b, n) == (a * Pow2Mod(n - 2, b)) % b # 0

LeadingOne(bits) ==
    IF \E i \in 1..Len(bits) : bits[i] = 1
    THEN CHOOSE i \in 1..Len(bits) : bits[i] = 1 /\ \A j \in 1..(i - 1) : bits[j] = 0
    ELSE 0

\* bits plus one unit in position pos: the carry runs up to the nearest 0
AddOneAt(bits, pos) ==
    LET zeros == {i \in 1..pos : bits[i] = 0}
        z == CHOOSE i \in zeros : \A j \in zeros : j <= i
    IN [i \in 1..Len(bits) |->
          IF i = z THEN 1 ELSE IF i > z /\ i <= pos THEN 0 ELSE bits[i]]

\* round an exact value (bits, plus a non-zero tail when sticky) to 53 significant bits
RoundNearestEven(bits, sticky) ==
    LET p == LeadingOne(bits)
        last == p + MANTISSA_BITS - 1
        n == Len(bits)
        kept == [i \in 1..n |-> IF i <= last THEN bits[i] ELSE 0]
        guard == IF last + 1 <= n THEN bits[last + 1] ELSE 0
        tail == sticky \/ \E i \in (last + 2)..n : bits[i] = 1
    IN IF p = 0 \/ last >= n THEN bits
       ELSE IF guard = 1 /\ (tail \/ bits[last] = 1) THEN AddOneAt(kept, last)
       ELSE kept

\* a / b for integers 0 <= a < 2b (true division, correctly rounded)
FloatDiv(a, b) ==
    RoundNearestEven(QuotientBits(a, b, GRID_BITS), QuotientTail(a, b, GRID_BITS))

\* the carry into position i of x + y: decided by the nearest lower position where
\* the two bits agree (both 1 makes a carry, both 0 stops one)
CarryInto(x, y, i) ==
    LET agree == {k \in (i + 1)..Len(x) : x[k] = y[k]}
        k0 == CHOOSE k \in agree : \A j \in agree : k <= j
    IN IF agree = {} THEN 0 ELSE x[k0]

\* x + y for floats whose sum is below 4
FloatAdd(x, y) ==
    RoundNearestEven([i \in 1..Len(x) |-> (x[i] + y[i] + CarryInto(x, y, i)) % 2], FALSE)

\* x / 2: exact
FloatHalf(x) == <<0>> \o SubSeq(x, 1, Len(x) - 1)

FloatGreater(x, y) ==
    \E i \in 1..Len(x) :
        /\ x[i] = 1 /\ y[i] = 0
        /\ \A j \in 1..(i - 1) : x[j] = y[j]

(***************************************************************************)
(* panel_drawer.calculate_cell_layout                                      *)
(***************************************************************************)
CELL_STANDARD_WIDTH == 182

CELL_STANDARD_HEIGHT == 91

\* the 3 mm gap, in half-millimetres
GAP_WIDE == 6

\* the 1.5 mm gap, in half-millimetres
GAP_NARROW == 3

\* the orientation test with >= for >: a square panel taken as landscape
is_landscape_or_square(panel_width, panel_height) == panel_width >= panel_height

is_landscape(panel_width, panel_height) == panel_width > panel_height

\* (cell_w, cell_h) in mm and (h_gap, v_gap) in half-millimetres
CellGeometry(panel_width, panel_height) ==
    IF is_landscape(panel_width, panel_height)
    THEN [cell_w |-> CELL_STANDARD_WIDTH, cell_h |-> CELL_STANDARD_HEIGHT,
          h_gap |-> GAP_WIDE, v_gap |-> GAP_NARROW]
    ELSE [cell_w |-> CELL_STANDARD_HEIGHT, cell_h |-> CELL_STANDARD_WIDTH,
          h_gap |-> GAP_NARROW, v_gap |-> GAP_WIDE]

\* n * cell + (n - 1) * gap, in half-millimetres
RequiredSpace(n, cell, gap) == 2 * n * cell + (n - 1) * gap

Fits(required, panel) == required <= 2 * panel

\* (width_usage + height_usage) / 2 as the float the code computes
avg_usage(req_width, req_height, panel_width, panel_height) ==
    FloatHalf(FloatAdd(FloatDiv(req_width, 2 * panel_width),
                       FloatDiv(req_height, 2 * panel_height)))

\* range(1, total_cells): the loop stopping one short
DivisorRangeShort(total_cells) == 1..(total_cells - 1)

\* the values of h the loop visits
DivisorRange(total_cells) == 1..total_cells

\* whether the divisor pair (h, total_cells // h) passes the fit test
FitsPanel(panel_width, panel_height, total_cells, h) ==
    LET g == CellGeometry(panel_width, panel_height)
    IN /\ total_cells % h = 0
       /\ Fits(RequiredSpace(h, g.cell_w, g.h_gap), panel_width)
       /\ Fits(RequiredSpace(total_cells \div h, g.cell_h, g.v_gap), panel_height)

\* the list the loop builds: the divisor pairs that fit, in ascending h
possible_configs(panel_width, panel_height, total_cells) ==
    LET g == CellGeometry(panel_width, panel_height)
        fitting == {h \in DivisorRange(total_cells) :
                       FitsPanel(panel_width, panel_height, total_cells, h)}
        nth(k) == CHOOSE h \in fitting : Cardinality({h2 \in fitting : h2 < h}) = k - 1
    IN [k \in 1..Cardinality(fitting) |->
          LET h == nth(k)
              v == total_cells \div h
          IN [h |-> h, v |-> v,
              usage |-> avg_usage(RequiredSpace(h, g.cell_w, g.h_gap),
                                  RequiredSpace(v, g.cell_h, g.v_gap),
                                  panel_width, panel_height)]]

\* a descending sort that puts c before the entries with an equal key
InsertBeforeEqual(sorted, c) ==
    LET before == {i \in 1..Len(sorted) : ~FloatGreater(sorted[i].usage, c.usage)}
        at == IF before = {} THEN Len(sorted) + 1
              ELSE CHOOSE i \in before : \A j \in before : i <= j
    IN SubSeq(sorted, 1, at - 1) \o <<c>> \o SubSeq(sorted, at, Len(sorted))

\* where a stable descending sort puts c: after every entry whose key is not smaller
InsertDescending(sorted, c) ==
    LET before == {i \in 1..Len(sorted) : FloatGreater(c.usage, sorted[i].usage)}
        at == IF before = {} THEN Len(sorted) + 1
              ELSE CHOOSE i \in before : \A j \in before : i <= j
    IN SubSeq(sorted, 1, at - 1) \o <<c>> \o SubSeq(sorted, at, Len(sorted))

RECURSIVE SortDescendingFrom(_, _, _)
SortDescendingFrom(configs, k, sorted) ==
    IF k > Len(configs) THEN sorted
    ELSE SortDescendingFrom(configs, k + 1, InsertDescending(sorted, configs[k]))

\* list.sort(key=usage, reverse=True): stable
SortByUsage(configs) == SortDescendingFrom(configs, 1, <<>>)

calculate_cell_layout(panel_width, panel_height, total_cells) ==
    LET g == CellGeometry(panel_width, panel_height)
        configs == possible_configs(panel_width, panel_height, total_cells)
        best == SortByUsage(configs)[1]
    IN IF configs = <<>> THEN [raised |-> TRUE]
       ELSE [raised |-> FALSE,
             cells_horizontal |-> best.h, cells_vertical |-> best.v,
             cell_w |-> g.cell_w, cell_h |-> g.cell_h,
             h_gap |-> g.h_gap, v_gap |-> g.v_gap]

(***************************************************************************)
(* panel_drawer.parse_series_name                                          *)
(***************************************************************************)
DigitChars == <<"0", "1", "2", "3", "4", "5", "6", "7", "8", "9">>

IsDigit(c) == \E d \in 1..10 : DigitChars[d] = c

DigitValue(c) == (CHOOSE d \in 1..10 : DigitChars[d] = c) - 1

\* where the longest run of digits starting at position i ends (i - 1: no digit there)
DigitRunEnd(s, i) ==
    CHOOSE j \in (i - 1)..Len(s) :
        /\ \A k \in i..j : IsDigit(s[k])
        /\ j = Len(s) \/ ~IsDigit(s[j + 1])

RECURSIVE int(_)
\* int() of a run of decimal digits
int(digits) ==
    IF digits = <<>> THEN 0
    ELSE 10 * int(SubSeq(digits, 1, Len(digits) - 1)) + DigitValue(digits[Len(digits)])

\* re.match(r'(\d+)x(\d+)', s): anchored at the start, the x in lower case only
dim_match(s) ==
    LET e1 == DigitRunEnd(s, 1)
        e2 == DigitRunEnd(s, e1 + 2)
    IN IF e1 >= 1 /\ e1 + 1 <= Len(s) /\ s[e1 + 1] = "x" /\ e2 >= e1 + 2
       THEN [matched |-> TRUE, group1 |-> SubSeq(s, 1, e1), group2 |-> SubSeq(s, e1 + 2, e2)]
       ELSE [matched |-> FALSE]

\* whether s(\d+)p(\d+), case ignored, matches at position i
CellPatternAt(s, i) ==
    LET e1 == DigitRunEnd(s, i + 1)
    IN /\ s[i] \in {"s", "S"}
       /\ e1 >= i + 1 /\ e1 + 1 <= Len(s) /\ s[e1 + 1] \in {"p", "P"}
       /\ DigitRunEnd(s, e1 + 2) >= e1 + 2

\* re.search(r's(\d+)p(\d+)', s, re.IGNORECASE): the leftmost match
cell_match(s) ==
    LET starts == {i \in 1..Len(s) : CellPatternAt(s, i)}
        i0 == CHOOSE i \in starts : \A j \in starts : i <= j
        e1 == DigitRunEnd(s, i0 + 1)
    IN IF starts = {} THEN [matched |-> FALSE]
       ELSE [matched |-> TRUE, group1 |-> SubSeq(s, i0 + 1, e1),
             group2 |-> SubSeq(s, e1 + 2, DigitRunEnd(s, e1 + 2))]

parse_series_name(series) ==
    LET dm == dim_match(series)
        cm == cell_match(series)
    IN IF ~dm.matched THEN [raised |-> TRUE]
       ELSE IF ~cm.matched THEN [raised |-> TRUE]
       ELSE [raised |-> FALSE,
             height |-> int(dm.group1),
             width |-> int(dm.group2),
             total_cells |-> int(cm.group1) * int(cm.group2),
             parallel_strings |-> int(cm.group2)]

(***************************************************************************)
(* panel_drawer.draw_panel_sketch                                          *)
(***************************************************************************)
\* the smaller of the parsed dimensions becomes the drawn width, the larger the height
SwapForPortrait(parsed) ==
    [panel_width |-> IF parsed.width < parsed.height THEN parsed.width ELSE parsed.height,
     panel_height |-> IF parsed.height > parsed.width THEN parsed.height ELSE parsed.width]

\* drawing and plt.savefig, which raise when savefig_ok is false
DrawAndSave(panel, layout, savefig_ok) ==
    IF layout.raised
    THEN [raised |-> TRUE, stage |-> "layout",
          panel_width |-> panel.panel_width, panel_height |-> panel.panel_height]
    ELSE [raised |-> ~savefig_ok, stage |-> IF savefig_ok THEN "done" ELSE "draw",
          panel_width |-> panel.panel_width, panel_height |-> panel.panel_height,
          layout |-> layout]

LayoutAndDraw(panel, total_cells, savefig_ok) ==
    DrawAndSave(panel,
                calculate_cell_layout(panel.panel_width, panel.panel_height, total_cells),
                savefig_ok)

ParsedToSketch(parsed, savefig_ok) ==
    IF parsed.raised THEN [raised |-> TRUE, stage |-> "parse"]
    ELSE LayoutAndDraw(SwapForPortrait(parsed), parsed.total_cells, savefig_ok)

\* the body of the try block; savefig_ok: whether drawing and plt.savefig succeed
SketchBody(series, savefig_ok) == ParsedToSketch(parse_series_name(series), savefig_ok)

\* the try block without its except clause
CatchNothing(body) == [propagated |-> body.raised, value |-> ~body.raised, body |-> body]

\* except Exception: return False
CatchAll(body) == [propagated |-> FALSE, value |-> ~body.raised, body |-> body]

\* try: ... return True / except Exception: return False
draw_panel_sketch(series, savefig_ok) == CatchAll(SketchBody(series, savefig_ok))

(***************************************************************************)
(* graph_builder.generate_dual_iv_curves                                   *)
(*                                                                         *)
(* A rating is None, a finite number, a numeric string, NaN, or a string   *)
(* that is no number.  A worksheet cell is blank or holds a float.         *)
(***************************************************************************)
None == [kind |-> "none"]

NaN == [kind |-> "nan"]

Text == [kind |-> "text"]

Num(n) == [kind |-> "num", val |-> n]

NumText(n) == [kind |-> "numtext", val |-> n]

Blank == [kind |-> "blank"]

\* float(x): raises ValueError on a string that is no number
FloatRaises(x) == x.kind = "text"

FloatOf(x) == IF x.kind \in {"num", "numtext"} THEN Num(x.val) ELSE NaN

\* ws[cell] = float(value) when the value is not None
UpdateCell(cell, input) == IF input = None THEN cell ELSE FloatOf(input)

\* float(df_raw.iloc[...]): a blank cell and a NaN cell both read back as NaN
ReadBack(cell) == IF cell.kind = "num" THEN cell ELSE NaN

\* the try block of lines 46-89: what it leaves in voc and isc, or that it raised
ExtractRatings(sheet, voc_input, isc_input, pmax_input) ==
    IF \/ voc_input # None /\ FloatRaises(voc_input)
       \/ isc_input # None /\ FloatRaises(isc_input)
       \/ pmax_input # None /\ FloatRaises(pmax_input)
    THEN [raised |-> TRUE]
    ELSE [raised |-> FALSE,
          voc |-> ReadBack(UpdateCell(sheet.D18, voc_input)),
          isc |-> ReadBack(UpdateCell(sheet.D21, isc_input))]

\* pd.isna(voc) or pd.isna(isc)
RatingsRejected(voc, isc) == voc = NaN \/ isc = NaN

\* the function with no except clause around the try block
generate_dual_iv_curves_uncaught(source_ok, sheet, voc_input, isc_input, pmax_input) ==
    LET read == ExtractRatings(sheet, voc_input, isc_input, pmax_input)
    IN IF ~source_ok \/ read.raised THEN [raised |-> TRUE]
       ELSE IF RatingsRejected(read.voc, read.isc) THEN [raised |-> FALSE, value |-> FALSE]
       ELSE [raised |-> FALSE, value |-> TRUE,
             image |-> [voc |-> read.voc.val, isc |-> read.isc.val]]

\* source_ok: whether the Excel source can be read into the temporary copy (lines 28-44,
\* outside the try).  image: the ratings the written curves were drawn from.
generate_dual_iv_curves(source_ok, sheet, voc_input, isc_input, pmax_input) ==
    LET read == ExtractRatings(sheet, voc_input, isc_input, pmax_input)
    IN IF ~source_ok THEN [raised |-> TRUE]
       ELSE IF read.raised THEN [raised |-> FALSE, value |-> FALSE]
       ELSE IF RatingsRejected(read.voc, read.isc) THEN [raised |-> FALSE, value |-> FALSE]
       ELSE [raised |-> FALSE, value |-> TRUE,
             image |-> [voc |-> read.voc.val, isc |-> read.isc.val]]

(***************************************************************************)
(* app.py: the names the generation loop derives from a row                *)
(***************************************************************************)
\* raw_series.replace(" ", "_")
CleanSeriesName(raw_series) ==
    [i \in 1..Len(raw_series) |-> IF raw_series[i] = " " THEN "_" ELSE raw_series[i]]

\* f"Datasheet_{series_name}.pdf"
new_pdf_name(raw_series) == <<"Datasheet_">> \o CleanSeriesName(raw_series) \o <<".pdf">>

\* f"photos/{series_name}.png"
SketchPath(raw_series) == <<"photos/">> \o CleanSeriesName(raw_series) \o <<".png">>

(***************************************************************************)
(* Inputs                                                                  *)
(***************************************************************************)
\* the panel sizes and cell counts the layout is tried on
DimLo == 360

DimHi == 380

MaxCells == 4

\* the longest table the batch is run on
MaxRows == 2

RECURSIVE Decimal(_)
\* the decimal digits of a natural number
Decimal(n) ==
    IF n < 10 THEN <<DigitChars[n + 1]>>
    ELSE Decimal(n \div 10) \o <<DigitChars[(n % 10) + 1]>>

\* "<W>x<H><mid><s><S><p><P><suffix>"
Code(W, H, mid, sp, S, P, suffix) ==
    Decimal(W) \o <<"x">> \o Decimal(H) \o mid \o <<sp[1]>> \o Decimal(S)
    \o <<sp[2]>> \o Decimal(P) \o suffix

CodeDims == {100, 369, 670, 1745}

CodeTopologies == {<<1, 1>>, <<2, 2>>, <<4, 1>>, <<54, 1>>}

CodeMiddles == {<<"-">>, <<"-", "X", "-">>, <<"-", "S", "O", "L", "-", "8", "5", "5", "-">>}

CodeCases == {<<"s", "p">>, <<"S", "P">>}

CodeSuffixes == {<<>>, <<"M", "1", "0", "H", "C">>}

\* every code "<W>x<H>-...-s<S>p<P>..." tried, with the numbers it was written from
WellFormedCodes ==
    {[W |-> W, H |-> H, S |-> t[1], P |-> t[2], text |-> Code(W, H, mid, sp, t[1], t[2], suffix)] :
        W \in CodeDims, H \in CodeDims, t \in CodeTopologies, mid \in CodeMiddles,
        sp \in CodeCases, suffix \in CodeSuffixes}

\* codes that lack the dimension pattern or the cell pattern
MalformedCodes ==
    {<<>>,
     <<"P", "a", "n", "e", "l">>,
     <<"x", "6", "7", "0", "-", "s", "5", "4", "p", "1">>,
     <<"1", "7", "4", "5", "X", "6", "7", "0", "-", "s", "5", "4", "p", "1">>,
     <<" ", "1", "7", "4", "5", "x", "6", "7", "0", "-", "s", "5", "4", "p", "1">>,
     <<"1", "7", "4", "5", "x", "-", "s", "5", "4", "p", "1">>,
     <<"1", "7", "4", "5", "x", "6", "7", "0", "-", "X">>,
     <<"1", "7", "4", "5", "x", "6", "7", "0", "-", "s", "5", "4">>,
     <<"1", "7", "4", "5", "x", "6", "7", "0", "-", "s", "p", "1">>,
     <<"1", "7", "4", "5", "x", "6", "7", "0", "-", "s", "5", "4", "-", "p", "1">>}

SeriesNames == {c.text : c \in WellFormedCodes} \cup MalformedCodes

Ratings == {None, NaN, Text, Num(-5), Num(0), Num(40), NumText(40)}

PowerRatings == {None, Text, Num(300)}

CellValues == {Blank, Num(38)}

\* the rows of a batch: a code that draws, the same code with a space for the
\* underscore, a code no layout fits, and the default name "Panel"
BatchSeries ==
    {<<"1", "0", "0", "x", "2", "0", "0", "_", "s", "1", "p", "1">>,
     <<"1", "0", "0", "x", "2", "0", "0", " ", "s", "1", "p", "1">>,
     <<"5", "0", "x", "5", "0", "-", "s", "1", "p", "1">>,
     <<"P", "a", "n", "e", "l">>}

BatchRows == [series : BatchSeries, voc : {Num(40), Text}, isc : {Num(10)}, pmax : {None}]

Tables == UNION {[1..n -> BatchRows] : n \in 0..MaxRows}

Pending == [pending |-> TRUE]

(***************************************************************************)
(* State                                                                   *)
(***************************************************************************)
VARIABLES
    series_name,      \* the argument of parse_series_name and draw_panel_sketch
    parse_ret,        \* what parse_series_name returned
    sketch_ret,       \* what draw_panel_sketch returned
    layout_args,      \* the arguments of calculate_cell_layout
    layout_ret,       \* what it returned
    curve_args,       \* the arguments of generate_dual_iv_curves and the workbook it reads
    curve_ret,        \* what it returned
    edited_df,        \* the table of the batch
    source_ok,        \* whether the Excel source of the session can be read
    index,            \* the row the loop is at
    pc,               \* where the script is
    generated_files,  \* the list of the same name
    pdfs,             \* the Datasheet_*.pdf files on disk: name -> what was compiled
    iv_curve_png,     \* photos/IV_curve.png: 0 absent, -1 left by an earlier run, k drawn for row k
    photos,           \* the sketch images written
    st_errors,        \* the st.error messages shown
    zip_pos,          \* the entry the ZIP loop is at
    zip_entries       \* what the ZIP holds

sketchVars == <<series_name, parse_ret, sketch_ret>>

layoutVars == <<layout_args, layout_ret>>

curveVars == <<curve_args, curve_ret>>

batchVars == <<edited_df, source_ok, index, pc, generated_files, pdfs, iv_curve_png,
               photos, st_errors, zip_pos, zip_entries>>

vars == <<sketchVars, layoutVars, curveVars, batchVars>>

NoSketch == series_name = <<>> /\ parse_ret = Pending /\ sketch_ret = Pending

NoLayout ==
    /\ layout_args = [panel_width |-> 0, panel_height |-> 0, total_cells |-> 0]
    /\ layout_ret = Pending

NoCurves ==
    /\ curve_args = [source_ok |-> TRUE, sheet |-> [D18 |-> Blank, D21 |-> Blank],
                     voc_input |-> None, isc_input |-> None, pmax_input |-> None]
    /\ curve_ret = Pending

NoBatch ==
    /\ edited_df = <<>> /\ source_ok = TRUE /\ index = 1 /\ pc = "idle"
    /\ generated_files = <<>> /\ pdfs = <<>> /\ iv_curve_png = 0 /\ photos = {}
    /\ st_errors = <<>> /\ zip_pos = 1 /\ zip_entries = <<>>

(***************************************************************************)
(* The pure functions, each applied to inputs drawn in the initial state   *)
(***************************************************************************)
InitSketch ==
    /\ series_name \in SeriesNames
    /\ parse_ret = Pending /\ sketch_ret = Pending
    /\ NoLayout /\ NoCurves /\ NoBatch

CallParse ==
    /\ parse_ret = Pending
    /\ parse_ret' = parse_series_name(series_name)
    /\ UNCHANGED <<series_name, sketch_ret, layoutVars, curveVars, batchVars>>

CallDraw ==
    /\ sketch_ret = Pending
    /\ \E savefig_ok \in BOOLEAN :
          sketch_ret' = draw_panel_sketch(series_name, savefig_ok)
    /\ UNCHANGED <<series_name, parse_ret, layoutVars, curveVars, batchVars>>

NextSketch == CallParse \/ CallDraw

SpecSketch == InitSketch /\ [][NextSketch]_vars

InitLayout ==
    /\ layout_args \in [panel_width : DimLo..DimHi, panel_height : DimLo..DimHi,
                        total_cells : 0..MaxCells]
    /\ layout_ret = Pending
    /\ NoSketch /\ NoCurves /\ NoBatch

CallLayout ==
    /\ layout_ret = Pending
    /\ layout_ret' = calculate_cell_layout(layout_args.panel_width,
                                            layout_args.panel_height,
                                            layout_args.total_cells)
    /\ UNCHANGED <<layout_args, sketchVars, curveVars, batchVars>>

NextLayout == CallLayout

SpecLayout == InitLayout /\ [][NextLayout]_vars

InitCurves ==
    /\ curve_args \in [source_ok : BOOLEAN, sheet : [D18 : CellValues, D21 : CellValues],
                       voc_input : Ratings, isc_input : Ratings, pmax_input : PowerRatings]
    /\ curve_ret = Pending
    /\ NoSketch /\ NoLayout /\ NoBatch

CallCurves ==
    /\ curve_ret = Pending
    /\ curve_ret' = generate_dual_iv_curves(curve_args.source_ok, curve_args.sheet,
                                             curve_args.voc_input, curve_args.isc_input,
                                             curve_args.pmax_input)
    /\ UNCHANGED <<curve_args, sketchVars, layoutVars, batchVars>>

NextCurves == CallCurves

SpecCurves == InitCurves /\ [][NextCurves]_vars

(***************************************************************************)
(* app.py: the generation button                                           *)
(***************************************************************************)
\* the workbook of the session, as uploaded: its rating cells are blank
SessionSheet == [D18 |-> Blank, D21 |-> Blank]

InitBatch ==
    /\ edited_df \in Tables
    /\ source_ok \in BOOLEAN
    /\ iv_curve_png \in {0, -1}
    /\ index = 1
    /\ pc = "start"
    /\ generated_files = <<>> /\ pdfs = <<>> /\ photos = {}
    /\ st_errors = <<>> /\ zip_pos = 1 /\ zip_entries = <<>>
    /\ NoSketch /\ NoLayout /\ NoCurves

\* lines 41-52: generated_files = [], the photos directory, the template, the first row
StartLoop ==
    /\ pc = "start"
    /\ pc' = IF edited_df = <<>> THEN "download" ELSE "sketch"
    /\ UNCHANGED <<edited_df, source_ok, index, generated_files, pdfs, iv_curve_png,
                   photos, st_errors, zip_pos, zip_entries, sketchVars, layoutVars, curveVars>>

\* what step A leaves behind, given what draw_panel_sketch returned; the photos
\* directory exists (line 45), so the image is saved whenever the layout is found
AfterSketch(sketch) ==
    /\ pc' = IF sketch.propagated THEN "raised_in_loop" ELSE "graph"
    /\ photos' = IF sketch.value THEN photos \cup {SketchPath(edited_df[index].series)}
                 ELSE photos
    /\ st_errors' = IF ~sketch.propagated /\ ~sketch.value
                    THEN Append(st_errors, [row |-> index, what |-> "sketch"])
                    ELSE st_errors

\* A. lines 57-62
SketchStep ==
    /\ pc = "sketch"
    /\ AfterSketch(draw_panel_sketch(edited_df[index].series, TRUE))
    /\ UNCHANGED <<edited_df, source_ok, index, generated_files, pdfs, iv_curve_png,
                   zip_pos, zip_entries, sketchVars, layoutVars, curveVars>>

\* what step B leaves behind: the return value is not looked at
AfterGraph(curves) ==
    /\ pc' = IF curves.raised THEN "raised_in_loop" ELSE "latex"
    /\ iv_curve_png' = IF ~curves.raised /\ curves.value THEN index ELSE iv_curve_png

\* B. lines 64-80
GraphStep ==
    /\ pc = "graph"
    /\ AfterGraph(generate_dual_iv_curves(source_ok, SessionSheet, edited_df[index].voc,
                                          edited_df[index].isc, edited_df[index].pmax))
    /\ UNCHANGED <<edited_df, source_ok, index, generated_files, pdfs, photos, st_errors,
                   zip_pos, zip_entries, sketchVars, layoutVars, curveVars>>

\* C and D. lines 82-134: job.tex and data.csv are written from this row, job.pdf is
\* removed, xelatex runs, and job.pdf, when it exists, is renamed and listed
LatexStep ==
    /\ pc = "latex"
    /\ \E job_pdf_exists \in BOOLEAN :
          IF job_pdf_exists
          THEN /\ pdfs' = [n \in DOMAIN pdfs \cup {new_pdf_name(edited_df[index].series)} |->
                             IF n = new_pdf_name(edited_df[index].series)
                             THEN [row |-> index, curve |-> iv_curve_png]
                             ELSE pdfs[n]]
               /\ generated_files' =
                     Append(generated_files, new_pdf_name(edited_df[index].series))
               /\ st_errors' = st_errors
          ELSE /\ st_errors' = Append(st_errors, [row |-> index, what |-> "pdf"])
               /\ UNCHANGED <<pdfs, generated_files>>
    /\ index' = index + 1
    /\ pc' = IF index = Len(edited_df) THEN "download" ELSE "sketch"
    /\ UNCHANGED <<edited_df, source_ok, iv_curve_png, photos, zip_pos, zip_entries,
                   sketchVars, layoutVars, curveVars>>

\* lines 137-143: nothing to offer, or the one file is opened for the download button,
\* or the ZIP loop starts
Download ==
    /\ pc = "download"
    /\ pc' = IF Len(generated_files) = 0 THEN "done"
             ELSE IF Len(generated_files) = 1
             THEN (IF generated_files[1] \in DOMAIN pdfs THEN "done" ELSE "raised_in_download")
             ELSE "zip"
    /\ UNCHANGED <<edited_df, source_ok, index, generated_files, pdfs, iv_curve_png,
                   photos, st_errors, zip_pos, zip_entries, sketchVars, layoutVars, curveVars>>

\* lines 146-148: zf.write(f), which raises when f is not there, then os.remove(f)
ZipStep ==
    /\ pc = "zip"
    /\ IF generated_files[zip_pos] \in DOMAIN pdfs
       THEN /\ zip_entries' = Append(zip_entries, [name |-> generated_files[zip_pos],
                                                    content |-> pdfs[generated_files[zip_pos]]])
            /\ pdfs' = [n \in DOMAIN pdfs \ {generated_files[zip_pos]} |-> pdfs[n]]
            /\ zip_pos' = zip_pos + 1
            /\ pc' = IF zip_pos = Len(generated_files) THEN "done" ELSE "zip"
       ELSE /\ pc' = "raised_in_download"
            /\ UNCHANGED <<zip_entries, pdfs, zip_pos>>
    /\ UNCHANGED <<edited_df, source_ok, index, generated_files, iv_curve_png, photos,
                   st_errors, sketchVars, layoutVars, curveVars>>

NextBatch == StartLoop \/ SketchStep \/ GraphStep \/ LatexStep \/ Download \/ ZipStep

SpecBatch == InitBatch /\ [][NextBatch]_vars

(***************************************************************************)
(* Properties of calculate_cell_layout                                     *)
(***************************************************************************)
LayoutReturned == layout_ret # Pending /\ ~layout_ret.raised

\* cell width, cell height (mm), horizontal and vertical gap (half-mm) of an orientation
GeometryOf(pw, ph) == IF pw > ph THEN <<182, 91, 6, 3>> ELSE <<91, 182, 3, 6>>

\* the space h columns and v rows take, in half-millimetres
WidthOf(pw, ph, h) == 2 * h * GeometryOf(pw, ph)[1] + (h - 1) * GeometryOf(pw, ph)[3]

HeightOf(pw, ph, v) == 2 * v * GeometryOf(pw, ph)[2] + (v - 1) * GeometryOf(pw, ph)[4]

\* the h of the divisor pairs (h, t / h) that fit the panel
FittingColumns(pw, ph, t) ==
    {h \in 1..t : /\ t % h = 0
                  /\ WidthOf(pw, ph, h) <= 2 * pw
                  /\ HeightOf(pw, ph, t \div h) <= 2 * ph}

\* the exact average usage of (h, t / h), times 4 * pw * ph
ExactUsage(pw, ph, t, h) == WidthOf(pw, ph, h) * ph + HeightOf(pw, ph, t \div h) * pw

\* the average usage, as the code computes it, of every pair that fits
ComputedUsage(pw, ph, t) ==
    [h \in FittingColumns(pw, ph, t) |->
        avg_usage(WidthOf(pw, ph, h), HeightOf(pw, ph, t \div h), pw, ph)]

\* h has the highest usage in u, and no pair with fewer columns has the same usage
FirstOfHighest(u, h) ==
    /\ h \in DOMAIN u
    /\ \A q \in DOMAIN u :
          /\ ~FloatGreater(u[q], u[h])
          /\ q < h => FloatGreater(u[h], u[q])

\* some pair with more columns than h has the same usage
SharesUsage(u, h) == \E q \in DOMAIN u : q > h /\ u[q] = u[h]

\* C2: whenever a divisor pair fits, the layout returned is an exact factorization of
\* total_cells that fits the panel on both axes, with the cell size and gaps of the
\* orientation panel_width > panel_height selects (a square panel: portrait)
C2_FactorizationFits ==
    LET pw == layout_args.panel_width
        ph == layout_args.panel_height
        t == layout_args.total_cells
        g == GeometryOf(pw, ph)
    IN (layout_ret # Pending /\ FittingColumns(pw, ph, t) # {}) =>
          /\ ~layout_ret.raised
          /\ layout_ret.cells_horizontal * layout_ret.cells_vertical = t
          /\ <<layout_ret.cell_w, layout_ret.cell_h, layout_ret.h_gap, layout_ret.v_gap>> = g
          /\ WidthOf(pw, ph, layout_ret.cells_horizontal) <= 2 * pw
          /\ HeightOf(pw, ph, layout_ret.cells_vertical) <= 2 * ph

\* a square panel laid out in several columns with the portrait cell
C2_Witness ==
    /\ LayoutReturned
    /\ layout_args.panel_width = layout_args.panel_height
    /\ layout_ret.cells_horizontal > 1 /\ layout_ret.cell_w = 91

\* C3 as written: the layout returned has the highest average usage among the pairs
\* that fit, and the smallest h among the pairs that share that highest usage
C3_SmallestColumnsOnTie ==
    LET pw == layout_args.panel_width
        ph == layout_args.panel_height
        t == layout_args.total_cells
        h == layout_ret.cells_horizontal
    IN LayoutReturned =>
          \A q \in FittingColumns(pw, ph, t) :
             /\ ExactUsage(pw, ph, t, q) <= ExactUsage(pw, ph, t, h)
             /\ ExactUsage(pw, ph, t, q) = ExactUsage(pw, ph, t, h) => h <= q

\* C3 amended: the layout returned has the highest computed usage among the pairs that
\* fit, and the smallest h among the pairs whose computed usage equals that highest one
C3_SmallestColumnsOnComputedTie ==
    LayoutReturned =>
       /\ layout_ret.cells_vertical = layout_args.total_cells \div layout_ret.cells_horizontal
       /\ FirstOfHighest(ComputedUsage(layout_args.panel_width, layout_args.panel_height,
                                       layout_args.total_cells),
                         layout_ret.cells_horizontal)

\* two pairs that fit have the same computed usage, and the one with fewer columns is returned
C3_Witness ==
    /\ LayoutReturned
    /\ SharesUsage(ComputedUsage(layout_args.panel_width, layout_args.panel_height,
                                 layout_args.total_cells),
                   layout_ret.cells_horizontal)

\* C4: the call fails exactly when no divisor pair (h, total_cells / h), h in
\* 1..total_cells, fits the panel on both axes
C4_FailsIffNothingFits ==
    layout_ret # Pending =>
       (layout_ret.raised <=>
           FittingColumns(layout_args.panel_width, layout_args.panel_height,
                          layout_args.total_cells) = {})

\* a panel too small for any arrangement of its cells
C4_Witness ==
    /\ layout_ret # Pending /\ layout_ret.raised
    /\ layout_args.total_cells > 1

(***************************************************************************)
(* Properties of parse_series_name and draw_panel_sketch                   *)
(***************************************************************************)
\* C1: a well-formed code "<W>x<H>-...-s<S>p<P>..." parses to width W, the first
\* integer, height H, the second, and total_cells S * P
C1_FirstIntegerIsWidth ==
    parse_ret # Pending =>
       \A c \in WellFormedCodes :
          c.text = series_name =>
             /\ ~parse_ret.raised
             /\ parse_ret.width = c.W /\ parse_ret.height = c.H
             /\ parse_ret.total_cells = c.S * c.P

\* C5: draw_panel_sketch never raises; a parse, layout or drawing failure is returned
\* as False, and True is returned only when all three succeeded
C5_FailuresReturnFalse ==
    sketch_ret # Pending =>
       /\ ~sketch_ret.propagated
       /\ series_name \in MalformedCodes => sketch_ret.value = FALSE
       /\ sketch_ret.body.raised => sketch_ret.value = FALSE
       /\ sketch_ret.value = TRUE =>
             /\ sketch_ret.body.stage = "done"
             /\ ~parse_series_name(series_name).raised
             /\ ~sketch_ret.body.layout.raised

\* a code that parses and has no layout that fits comes back as False
C5_Witness ==
    /\ sketch_ret # Pending
    /\ sketch_ret.body.stage = "layout" /\ sketch_ret.value = FALSE

Code1745x670 ==
    <<"1", "7", "4", "5", "x", "6", "7", "0", "-", "X", "-", "s", "5", "4", "p", "1">>

\* C8: for "1745x670-X-s54p1" the parse gives width 1745, height 670 and 54 cells, and
\* the layout drawn uses the landscape cell (182 x 91, gaps 3 and 1.5) and is the divisor
\* pair of 54 that fits 1745 x 670 with the highest average usage
C8_LandscapeLayoutOf1745x670 ==
    series_name = Code1745x670 =>
       /\ parse_ret # Pending =>
             /\ ~parse_ret.raised
             /\ parse_ret.width = 1745 /\ parse_ret.height = 670
             /\ parse_ret.total_cells = 54
       /\ (sketch_ret # Pending /\ sketch_ret.value) =>
             /\ <<sketch_ret.body.layout.cell_w, sketch_ret.body.layout.cell_h,
                  sketch_ret.body.layout.h_gap, sketch_ret.body.layout.v_gap>>
                = <<182, 91, 6, 3>>
             /\ sketch_ret.body.layout.cells_horizontal \in FittingColumns(1745, 670, 54)
             /\ sketch_ret.body.layout.cells_vertical
                = 54 \div sketch_ret.body.layout.cells_horizontal
             /\ \A q \in FittingColumns(1745, 670, 54) :
                   ExactUsage(1745, 670, 54, q)
                   <= ExactUsage(1745, 670, 54, sketch_ret.body.layout.cells_horizontal)

(***************************************************************************)
(* Properties of generate_dual_iv_curves                                   *)
(***************************************************************************)
\* missing, not a number, NaN, zero or negative
InvalidRating(x) ==
    IF x.kind \in {"num", "numtext"} THEN x.val <= 0 ELSE TRUE

\* C6: with a readable source, the call returns False and writes no image whenever the
\* open-circuit voltage or the short-circuit current is invalid
C6_InvalidRatingReturnsFalse ==
    (/\ curve_ret # Pending
     /\ curve_args.source_ok
     /\ InvalidRating(curve_args.voc_input) \/ InvalidRating(curve_args.isc_input)) =>
       /\ ~curve_ret.raised
       /\ curve_ret.value = FALSE

(***************************************************************************)
(* Properties of the batch                                                 *)
(***************************************************************************)
LoopOver == pc \in {"download", "zip", "done", "raised_in_download"}

PdfFailed(k) == \E i \in 1..Len(st_errors) : st_errors[i] = [row |-> k, what |-> "pdf"]

SketchFailed(k) == \E i \in 1..Len(st_errors) : st_errors[i] = [row |-> k, what |-> "sketch"]

RECURSIVE CompiledUpTo(_)
\* the PDF names of the rows 1..k whose compilation left a job.pdf, in row order
CompiledUpTo(k) ==
    IF k = 0 THEN <<>>
    ELSE IF PdfFailed(k) THEN CompiledUpTo(k - 1)
    ELSE Append(CompiledUpTo(k - 1), new_pdf_name(edited_df[k].series))

\* C7: no failure of a row (a code that does not parse, a layout that does not fit, an
\* invalid rating, a failed compilation) ends the loop: with a readable source the loop
\* raises nothing, visits the rows in order up to the last, and lists every row whose
\* PDF was compiled
C7_RowFailureKeepsBatchGoing ==
    /\ pc = "raised_in_loop" => ~source_ok
    /\ index \in 1..(Len(edited_df) + 1)
    /\ pc \in {"sketch", "graph", "latex"} => generated_files = CompiledUpTo(index - 1)
    /\ LoopOver => /\ index = Len(edited_df) + 1
                   /\ generated_files = CompiledUpTo(Len(edited_df))

\* the first of two rows failed at every step and the second was still generated
C7_Witness ==
    /\ pc = "download" /\ Len(edited_df) = 2
    /\ edited_df[1].voc = Text /\ SketchFailed(1) /\ PdfFailed(1)
    /\ generated_files = <<new_pdf_name(edited_df[2].series)>>

\* C9: a PDF compiled for row k with a curve image present has the image drawn from
\* row k's ratings in that iteration
C9_CurveBelongsToRow ==
    \A n \in DOMAIN pdfs : pdfs[n].curve # 0 => pdfs[n].curve = pdfs[n].row

\* C10: the entries of generated_files are distinct, and each names a file that is
\* there when the download step reads it
C10_ListedFilesDistinctAndPresent ==
    /\ LoopOver =>
          \A i, j \in 1..Len(generated_files) :
             i # j => generated_files[i] # generated_files[j]
    /\ pc = "zip" => generated_files[zip_pos] \in DOMAIN pdfs
    /\ pc = "download" /\ Len(generated_files) = 1 => generated_files[1] \in DOMAIN pdfs
    /\ pc # "raised_in_download"

====
